---- MODULE Spec2Model ----
(***************************************************************************)
(* PG listing form (PGListingForm) and its validation.                     *)
(*                                                                         *)
(* Text is a sequence of one-character strings, so that the regular        *)
(* expressions and the label derivation of validateForm work on            *)
(* characters.  A nullable value (number | null, FileList | null) is       *)
(* << >> for null and <<v>> for the value v.                               *)
(***************************************************************************)
EXTENDS Integers, Sequences, FiniteSets, TLC

VARIABLES showPreview, formData, toasts, probe, verdict

vars == <<showPreview, formData, toasts, probe, verdict>>

(***************************************************************************)
(* Bounds of the exploration.                                              *)
(***************************************************************************)
\* largest number of files offered in one selection (one more than the cap)
MaxSelect == 11
\* how many of the fields that validation does not read as required text
\* (optional text, radio groups, amenities, sharing prices) may differ from
\* their initial value at the same time
MaxChanged == 1
\* how many of the optional text inputs, of the radio groups and of the amenity
\* checkboxes the user touches (the first ones, in the order of the form)
NumNames == 1
\* how many of the sharing price inputs the user touches (the first ones)
NumPriceKeys == 2
\* longest probe string over the mobile alphabet
MaxMobileLen == 11
\* longest probe string over the email alphabet
MaxEmailLen == 5
\* largest currentStep handed to the progress tracker
MaxStep == 5
\* largest totalSteps handed to the progress tracker
MaxTotal == 40
\* largest number of step labels handed to the progress tracker
MaxLabels == 4

Null == << >>

Some(v) == <<v>>

Min(a, b) == IF a < b THEN a ELSE b

(***************************************************************************)
(* Regular expressions: a pattern is a sequence of atoms, each a character *)
(* class with a repetition range, anchored or not at either end.           *)
(***************************************************************************)
Digits == {"0", "1", "2", "3", "4", "5", "6", "7", "8", "9"}

Whitespace == {" ", "\t", "\n", "\r", "\f"}

\* \d{10}
DigitAtom == [neg |-> FALSE, set |-> Digits, lo |-> 10, inf |-> FALSE, hi |-> 10]

\* [^\s@]+
WordAtom == [neg |-> TRUE, set |-> Whitespace \cup {"@"}, lo |-> 1, inf |-> TRUE, hi |-> 0]

\* a literal character
Lit(c) == [neg |-> FALSE, set |-> {c}, lo |-> 1, inf |-> FALSE, hi |-> 1]

\* the mobile pattern without its end anchor
mobileRegex_NoEnd == [start |-> TRUE, end |-> FALSE, atoms |-> <<DigitAtom>>]

\* /^\d{10}$/
mobileRegex == [start |-> TRUE, end |-> TRUE, atoms |-> <<DigitAtom>>]

\* the email pattern without the dot and what follows it
emailRegex_NoDot == [start |-> TRUE, end |-> TRUE, atoms |-> <<WordAtom, Lit("@"), WordAtom>>]

\* /^[^\s@]+@[^\s@]+\.[^\s@]+$/
emailRegex == [start |-> TRUE, end |-> TRUE, atoms |-> <<WordAtom, Lit("@"), WordAtom, Lit("."), WordAtom>>]

InClass(atom, c) == IF atom.neg THEN c \notin atom.set ELSE c \in atom.set

\* the positions at which a match of atom that starts after position p can end
AtomEnds(atom, p, s) ==
  LET most == IF atom.inf THEN Len(s) - p ELSE Min(atom.hi, Len(s) - p)
  IN  {p + k : k \in {n \in atom.lo..most : \A j \in 1..n : InClass(atom, s[p + j])}}

RECURSIVE MatchEnds(_, _, _, _)
\* the positions at which a match of atoms[i..] that starts at one of from can end
MatchEnds(atoms, i, from, s) ==
  IF i > Len(atoms) THEN from
  ELSE MatchEnds(atoms, i + 1, UNION {AtomEnds(atoms[i], p, s) : p \in from}, s)

\* RegExp.prototype.test
RegexTest(re, s) ==
  LET starts == IF re.start THEN {0} ELSE 0..Len(s)
      ends == MatchEnds(re.atoms, 1, starts, s)
  IN  IF re.end THEN Len(s) \in ends ELSE ends # {}

(***************************************************************************)
(* The record of the form.                                                 *)
(***************************************************************************)
PriceKeys == {"1", "2", "3", "4", "5"}

AmenityNames == {"wifi", "washingMachine", "biometric", "ac", "gym", "powerBackup", "geyser", "roWater", "parking", "housekeeping"}

InitialFormData ==
  [pgName |-> << >>, address |-> << >>, googleMapsLink |-> << >>,
   pgType |-> "co-living", preferredTenants |-> "anyone",
   ownerName |-> << >>, primaryMobile |-> << >>, secondaryMobile |-> << >>,
   whatsappNumber |-> << >>, email |-> << >>,
   sharingPrices |-> [k \in PriceKeys |-> Null],
   deposit |-> << >>, refundPolicy |-> << >>, noticePeriod |-> << >>,
   amenities |-> [a \in AmenityNames |-> FALSE],
   bathroomType |-> "attached", otherAmenities |-> << >>,
   images |-> Null, videoLink |-> << >>]

\* the inputs wired to handleInputChange, by their name attribute
TextFields == {"pgName", "address", "googleMapsLink", "ownerName", "primaryMobile", "secondaryMobile", "whatsappNumber", "email", "deposit", "refundPolicy", "noticePeriod", "otherAmenities", "videoLink"}

\* those of them validateForm does not read, in the order of the form
OptionalTextFields == <<"googleMapsLink", "secondaryMobile", "whatsappNumber", "deposit", "refundPolicy", "noticePeriod", "otherAmenities", "videoLink">>

\* the radio groups wired to handleRadioChange, with the items each offers
RadioItems ==
  [pgType |-> {"ladies", "gents", "co-living"},
   preferredTenants |-> {"students", "professionals", "anyone"},
   bathroomType |-> {"attached", "common", "both"}]

RadioFields == DOMAIN RadioItems

\* the radio groups, the amenity checkboxes and the sharing price inputs in the order of the form
RadioOrder == <<"pgType", "preferredTenants", "bathroomType">>

AmenityOrder == <<"wifi", "washingMachine", "biometric", "ac", "gym", "powerBackup", "geyser", "roWater", "parking", "housekeeping">>

PriceKeyOrder == <<"1", "2", "3", "4", "5">>

(***************************************************************************)
(* Notifications.                                                          *)
(***************************************************************************)
Lower == <<"a", "b", "c", "d", "e", "f", "g", "h", "i", "j", "k", "l", "m", "n", "o", "p", "q", "r", "s", "t", "u", "v", "w", "x", "y", "z">>

Upper == <<"A", "B", "C", "D", "E", "F", "G", "H", "I", "J", "K", "L", "M", "N", "O", "P", "Q", "R", "S", "T", "U", "V", "W", "X", "Y", "Z">>

IsUpper(c) == \E i \in 1..Len(Upper) : Upper[i] = c

\* String.prototype.toUpperCase on one character
ToUpperCase(c) ==
  IF \E i \in 1..Len(Lower) : Lower[i] = c
  THEN Upper[CHOOSE i \in 1..Len(Lower) : Lower[i] = c]
  ELSE c

\* the characters of the identifiers in requiredFields
FieldChars ==
  [pgName |-> <<"p", "g", "N", "a", "m", "e">>,
   address |-> <<"a", "d", "d", "r", "e", "s", "s">>,
   ownerName |-> <<"o", "w", "n", "e", "r", "N", "a", "m", "e">>,
   primaryMobile |-> <<"p", "r", "i", "m", "a", "r", "y", "M", "o", "b", "i", "l", "e">>,
   email |-> <<"e", "m", "a", "i", "l">>]

RECURSIVE SpaceCapitals(_)
\* field.replace(/([A-Z])/g, ' $1')
SpaceCapitals(s) ==
  IF s = << >> THEN << >>
  ELSE (IF IsUpper(Head(s)) THEN <<" ", Head(s)>> ELSE <<Head(s)>>) \o SpaceCapitals(Tail(s))

\* .replace(/^./, str => str.toUpperCase())
CapitalizeFirst(s) == IF s = << >> THEN s ELSE <<ToUpperCase(Head(s))>> \o Tail(s)

FieldLabel(field) == CapitalizeFirst(SpaceCapitals(FieldChars[field]))

\* the notification is built without the destructive variant
ErrorToast_Plain(title, description) == [title |-> title, description |-> description, variant |-> "default"]

ErrorToast(title, description) == [title |-> title, description |-> description, variant |-> "destructive"]

RequiredToast(field) == ErrorToast("Validation Error", FieldLabel(field) \o <<" is required">>)

\* the list with address left out
requiredFields_NoAddress == <<"pgName", "ownerName", "primaryMobile", "email">>

requiredFields == <<"pgName", "address", "ownerName", "primaryMobile", "email">>

\* the notification of each entry of requiredFields
RequiredToasts == [i \in 1..Len(requiredFields) |-> RequiredToast(requiredFields[i])]

MobileToast == ErrorToast("Validation Error", <<"Primary mobile number must be 10 digits">>)

EmailToast == ErrorToast("Validation Error", <<"Please enter a valid email address">>)

PriceToast == ErrorToast("Validation Error", <<"Enter at least one sharing option price">>)

ImagesToast == ErrorToast("Validation Error", <<"Please upload at least one image">>)

ImageUploadToast == ErrorToast("Image Upload Error", <<"Please select between 1 and 10 images.">>)

SuccessToast == [title |-> "Success!", description |-> <<"Your PG listing has been posted successfully.">>, variant |-> "default"]

(***************************************************************************)
(* Validation.                                                             *)
(***************************************************************************)
\* !value for a string
Falsy(s) == s = << >>

\* the index in requiredFields at which the loop returns, 0 if it runs through
FirstMissing(fd) ==
  IF \E i \in 1..Len(requiredFields) : Falsy(fd[requiredFields[i]])
  THEN CHOOSE i \in 1..Len(requiredFields) :
         /\ Falsy(fd[requiredFields[i]])
         /\ \A j \in 1..(i - 1) : ~Falsy(fd[requiredFields[j]])
  ELSE 0

\* any entered price counts, whatever its sign
hasPrice_NonNull(fd) == \E k \in DOMAIN fd.sharingPrices : fd.sharingPrices[k] # Null

\* Object.values(formData.sharingPrices).some(price => price !== null && price > 0)
hasPrice(fd) == \E k \in DOMAIN fd.sharingPrices : fd.sharingPrices[k] # Null /\ fd.sharingPrices[k][1] > 0

\* !formData.images || formData.images.length === 0
NoImages(fd) == fd.images = Null \/ Len(fd.images[1]) = 0

\* validateForm without the check of the images
validateForm_NoImagesRule(fd) ==
  LET missing == FirstMissing(fd) IN
  IF missing # 0 THEN [ok |-> FALSE, toasts |-> <<RequiredToasts[missing]>>]
  ELSE IF ~RegexTest(mobileRegex, fd.primaryMobile) THEN [ok |-> FALSE, toasts |-> <<MobileToast>>]
  ELSE IF ~RegexTest(emailRegex, fd.email) THEN [ok |-> FALSE, toasts |-> <<EmailToast>>]
  ELSE IF ~hasPrice(fd) THEN [ok |-> FALSE, toasts |-> <<PriceToast>>]
  ELSE [ok |-> TRUE, toasts |-> << >>]

\* validateForm with the email format checked before the mobile format
validateForm_EmailFirst(fd) ==
  LET missing == FirstMissing(fd) IN
  IF missing # 0 THEN [ok |-> FALSE, toasts |-> <<RequiredToasts[missing]>>]
  ELSE IF ~RegexTest(emailRegex, fd.email) THEN [ok |-> FALSE, toasts |-> <<EmailToast>>]
  ELSE IF ~RegexTest(mobileRegex, fd.primaryMobile) THEN [ok |-> FALSE, toasts |-> <<MobileToast>>]
  ELSE IF ~hasPrice(fd) THEN [ok |-> FALSE, toasts |-> <<PriceToast>>]
  ELSE IF NoImages(fd) THEN [ok |-> FALSE, toasts |-> <<ImagesToast>>]
  ELSE [ok |-> TRUE, toasts |-> << >>]

\* the value validateForm returns and the notifications it emits
validateForm(fd) ==
  LET missing == FirstMissing(fd) IN
  IF missing # 0 THEN [ok |-> FALSE, toasts |-> <<RequiredToasts[missing]>>]
  ELSE IF ~RegexTest(mobileRegex, fd.primaryMobile) THEN [ok |-> FALSE, toasts |-> <<MobileToast>>]
  ELSE IF ~RegexTest(emailRegex, fd.email) THEN [ok |-> FALSE, toasts |-> <<EmailToast>>]
  ELSE IF ~hasPrice(fd) THEN [ok |-> FALSE, toasts |-> <<PriceToast>>]
  ELSE IF NoImages(fd) THEN [ok |-> FALSE, toasts |-> <<ImagesToast>>]
  ELSE [ok |-> TRUE, toasts |-> << >>]

(***************************************************************************)
(* What the user can enter.                                                *)
(***************************************************************************)
\* the values typed into the input called name
TextInputs(name) ==
  CASE name = "primaryMobile" -> {<< >>, <<"1", "2", "3", "4", "5">>, <<"9", "8", "7", "6", "5", "4", "3", "2", "1", "0">>}
    [] name = "email" -> {<< >>, <<"a", "@", "b">>, <<"a", "@", "b", ".", "c", "o", "m">>}
    [] name = "deposit" -> {<< >>, <<"1">>}
    [] OTHER -> {<< >>, <<"x">>}

\* the values typed into a sharing price input (type="number")
PriceInputs == {<< >>, <<"0">>, <<"5", "0", "0", "0">>, <<"-", "1">>}

\* a FileList of n files
FileList(n) == [i \in 1..n |-> i]

\* e.target.files of the file input: null, or a list of a number of files at
\* or next to the two limits (0, 1, 10, and up to MaxSelect)
FileSelections == {Null} \cup {Some(FileList(n)) : n \in {m \in 0..MaxSelect : m <= 1 \/ m >= 10}}

DigitValue(c) == CHOOSE n \in 0..9 : <<"0", "1", "2", "3", "4", "5", "6", "7", "8", "9">>[n + 1] = c

RECURSIVE DecimalValue(_)
DecimalValue(s) == IF s = << >> THEN 0 ELSE 10 * DecimalValue(SubSeq(s, 1, Len(s) - 1)) + DigitValue(s[Len(s)])

\* Number(value) for the decimal strings a number input yields
Number(s) == IF Head(s) = "-" THEN 0 - DecimalValue(Tail(s)) ELSE DecimalValue(s)

\* the number of fields outside requiredFields and images that differ from their initial value
Changed(fd) ==
  Cardinality({f \in (TextFields \cup RadioFields) \ {"pgName", "address", "ownerName", "primaryMobile", "email"} : fd[f] # InitialFormData[f]})
  + Cardinality({a \in AmenityNames : fd.amenities[a]})
  + Cardinality({k \in PriceKeys : fd.sharingPrices[k] # Null})

WithinBounds(fd) == Changed(fd) <= MaxChanged

First(order, n) == {order[i] : i \in 1..Min(n, Len(order))}

\* the names and keys the user touches
TouchedTextFields == {"pgName", "address", "ownerName", "primaryMobile", "email"} \cup First(OptionalTextFields, NumNames)

TouchedRadioFields == First(RadioOrder, NumNames)

TouchedAmenities == First(AmenityOrder, NumNames)

TouchedPriceKeys == First(PriceKeyOrder, NumPriceKeys)

(***************************************************************************)
(* The handlers.  The form and its inputs are rendered only while          *)
(* showPreview is false, the preview and its two buttons only while it is  *)
(* true.  toasts holds the notifications of the latest handler call.       *)
(***************************************************************************)
\* { ...obj, [key]: value }: the key is set, and added when obj does not have it
Spread(obj, key, value) == (key :> value) @@ obj

\* the record is rebuilt from the initial one instead of the previous one
HandleInputChange_DropsPrevious(name, value) ==
  /\ ~showPreview
  /\ formData' = Spread(InitialFormData, name, value)
  /\ WithinBounds(formData')
  /\ toasts' = << >>
  /\ UNCHANGED <<showPreview, probe, verdict>>

\* the text inputs stay in use while the preview is shown
HandleInputChange_InPreview(name, value) ==
  /\ formData' = Spread(formData, name, value)
  /\ WithinBounds(formData')
  /\ toasts' = << >>
  /\ UNCHANGED <<showPreview, probe, verdict>>

HandleInputChange(name, value) ==
  /\ ~showPreview
  /\ formData' = Spread(formData, name, value)
  /\ WithinBounds(formData')
  /\ toasts' = << >>
  /\ UNCHANGED <<showPreview, probe, verdict>>

HandleRadioChange(name, value) ==
  /\ ~showPreview
  /\ formData' = Spread(formData, name, value)
  /\ WithinBounds(formData')
  /\ toasts' = << >>
  /\ UNCHANGED <<showPreview, probe, verdict>>

\* the flag is set rather than negated
HandleCheckboxChange_SetsFlag(name) ==
  /\ ~showPreview
  /\ formData' = Spread(formData, "amenities", Spread(formData.amenities, name, TRUE))
  /\ WithinBounds(formData')
  /\ toasts' = << >>
  /\ UNCHANGED <<showPreview, probe, verdict>>

HandleCheckboxChange(name) ==
  /\ ~showPreview
  /\ formData' = Spread(formData, "amenities", Spread(formData.amenities, name, ~formData.amenities[name]))
  /\ WithinBounds(formData')
  /\ toasts' = << >>
  /\ UNCHANGED <<showPreview, probe, verdict>>

\* the price is stored under the id of the input rather than under the key
HandleSharingPriceChange_UnderInputId(key, value) ==
  LET numValue == IF value = << >> THEN Null ELSE Some(Number(value))
      id == [sharing1 |-> "1", sharing2 |-> "2", sharing3 |-> "3", sharing4 |-> "4", sharing5 |-> "5"]
  IN  /\ ~showPreview
      /\ formData' = Spread(formData, "sharingPrices", Spread(formData.sharingPrices, CHOOSE i \in DOMAIN id : id[i] = key, numValue))
      /\ WithinBounds(formData')
      /\ toasts' = << >>
      /\ UNCHANGED <<showPreview, probe, verdict>>

\* a negative amount is refused: null is stored in its place
HandleSharingPriceChange_RefusesNegative(key, value) ==
  LET numValue == IF value = << >> \/ Number(value) < 0 THEN Null ELSE Some(Number(value))
  IN  /\ ~showPreview
      /\ formData' = Spread(formData, "sharingPrices", Spread(formData.sharingPrices, key, numValue))
      /\ WithinBounds(formData')
      /\ toasts' = << >>
      /\ UNCHANGED <<showPreview, probe, verdict>>

HandleSharingPriceChange(key, value) ==
  LET numValue == IF value = << >> THEN Null ELSE Some(Number(value))
  IN  /\ ~showPreview
      /\ formData' = Spread(formData, "sharingPrices", Spread(formData.sharingPrices, key, numValue))
      /\ WithinBounds(formData')
      /\ toasts' = << >>
      /\ UNCHANGED <<showPreview, probe, verdict>>

\* a selection of more than 10 files is cut to its first 10
HandleImageChange_Truncate(files) ==
  /\ ~showPreview
  /\ IF files # Null /\ Len(files[1]) > 0
     THEN formData' = [formData EXCEPT !.images = Some(SubSeq(files[1], 1, Min(10, Len(files[1]))))] /\ toasts' = << >>
     ELSE formData' = formData /\ toasts' = <<ImageUploadToast>>
  /\ UNCHANGED <<showPreview, probe, verdict>>

\* the upper limit of the selection is not checked
HandleImageChange_NoCap(files) ==
  /\ ~showPreview
  /\ IF files # Null /\ Len(files[1]) > 0
     THEN formData' = [formData EXCEPT !.images = files] /\ toasts' = << >>
     ELSE formData' = formData /\ toasts' = <<ImageUploadToast>>
  /\ UNCHANGED <<showPreview, probe, verdict>>

HandleImageChange(files) ==
  /\ ~showPreview
  /\ IF files # Null /\ Len(files[1]) > 0 /\ Len(files[1]) <= 10
     THEN formData' = [formData EXCEPT !.images = files] /\ toasts' = << >>
     ELSE formData' = formData /\ toasts' = <<ImageUploadToast>>
  /\ UNCHANGED <<showPreview, probe, verdict>>

\* a failed validation drops the selected images
HandleSubmit_ClearImages ==
  LET valid == validateForm(formData)
  IN  /\ ~showPreview
      /\ formData' = (IF valid.ok THEN formData ELSE [formData EXCEPT !.images = Null])
      /\ UNCHANGED <<probe, verdict>>
      /\ toasts' = valid.toasts
      /\ showPreview' = (IF valid.ok THEN TRUE ELSE showPreview)

HandleSubmit ==
  LET valid == validateForm(formData)
  IN  /\ ~showPreview
      /\ UNCHANGED <<formData, probe, verdict>>
      /\ toasts' = valid.toasts
      /\ showPreview' = (IF valid.ok THEN TRUE ELSE showPreview)

\* the button is offered only while fewer than 10 images are attached
EditListing_UnlessFull ==
  /\ showPreview
  /\ formData.images # Null => Len(formData.images[1]) < 10
  /\ showPreview' = FALSE
  /\ toasts' = << >>
  /\ UNCHANGED <<formData, probe, verdict>>

\* going back to the form starts it afresh
EditListing_Reset ==
  /\ showPreview
  /\ showPreview' = FALSE
  /\ formData' = InitialFormData
  /\ toasts' = << >>
  /\ UNCHANGED <<probe, verdict>>

\* onClick of the "Edit Listing" button
EditListing ==
  /\ showPreview
  /\ showPreview' = FALSE
  /\ toasts' = << >>
  /\ UNCHANGED <<formData, probe, verdict>>

\* posting closes the preview and starts an empty form
HandlePost_StartsOver ==
  /\ showPreview
  /\ toasts' = <<SuccessToast>>
  /\ showPreview' = FALSE
  /\ formData' = InitialFormData
  /\ UNCHANGED <<probe, verdict>>

HandlePost ==
  /\ showPreview
  /\ toasts' = <<SuccessToast>>
  /\ UNCHANGED <<showPreview, formData, probe, verdict>>

Untested == [rule |-> "none", ok |-> FALSE]

Init ==
  /\ showPreview = FALSE
  /\ formData = InitialFormData
  /\ toasts = << >>
  /\ probe = << >>
  /\ verdict = Untested

Next ==
  \/ \E name \in TouchedTextFields : \E value \in TextInputs(name) : HandleInputChange(name, value)
  \/ \E name \in TouchedRadioFields : \E value \in RadioItems[name] : HandleRadioChange(name, value)
  \/ \E name \in TouchedAmenities : HandleCheckboxChange(name)
  \/ \E key \in TouchedPriceKeys : \E value \in PriceInputs : HandleSharingPriceChange(key, value)
  \/ \E files \in FileSelections : HandleImageChange(files)
  \/ HandleSubmit
  \/ EditListing
  \/ HandlePost

Spec == Init /\ [][Next]_vars

(***************************************************************************)
(* The two format rules of validateForm on their own: the probe is any     *)
(* short string over a small alphabet, and the rules are applied to it.    *)
(***************************************************************************)
Strings(alphabet, n) == UNION {[1..k -> alphabet] : k \in 0..n}

MobileProbes == Strings({"7", "x"}, MaxMobileLen) \cup TextInputs("primaryMobile")

EmailProbes == Strings({"a", "@", ".", " "}, MaxEmailLen) \cup TextInputs("email")

\* mobileRegex.test(formData.primaryMobile)
TestMobile ==
  /\ verdict' = [rule |-> "mobile", ok |-> RegexTest(mobileRegex, probe)]
  /\ UNCHANGED <<showPreview, formData, toasts, probe>>

\* emailRegex.test(formData.email)
TestEmail ==
  /\ verdict' = [rule |-> "email", ok |-> RegexTest(emailRegex, probe)]
  /\ UNCHANGED <<showPreview, formData, toasts, probe>>

InitRegex ==
  /\ showPreview = FALSE
  /\ formData = InitialFormData
  /\ toasts = << >>
  /\ probe \in MobileProbes \cup EmailProbes
  /\ verdict = Untested

NextRegex == TestMobile \/ TestEmail

SpecRegex == InitRegex /\ [][NextRegex]_vars

(***************************************************************************)
(* The form with every input outside requiredFields in use: each optional  *)
(* text input, radio group, amenity checkbox and sharing price input, the  *)
(* file input and the submit button.  The required fields stay empty, so   *)
(* the form is never previewed here.                                       *)
(***************************************************************************)
NextFrame ==
  \/ \E i \in 1..Len(OptionalTextFields) : \E value \in TextInputs(OptionalTextFields[i]) : HandleInputChange(OptionalTextFields[i], value)
  \/ \E name \in RadioFields : \E value \in RadioItems[name] : HandleRadioChange(name, value)
  \/ \E name \in AmenityNames : HandleCheckboxChange(name)
  \/ \E key \in PriceKeys : \E value \in PriceInputs : HandleSharingPriceChange(key, value)
  \/ \E files \in FileSelections : HandleImageChange(files)
  \/ HandleSubmit

SpecFrame == Init /\ [][NextFrame]_vars

(***************************************************************************)
(* Vocabulary of the properties, stated without the operators of           *)
(* validateForm.                                                           *)
(***************************************************************************)
(***************************************************************************)
(* The progress tracker (ProgressTracker): a function of its props.  The   *)
(* probe is the props of one call, the verdict what the call renders.      *)
(***************************************************************************)
LabelPool == <<"A", "B", "C", "D", "E", "F">>

\* the props of a call: labels may be left out
TrackerProps ==
  [currentStep : 0..MaxStep,
   totalSteps : 1..MaxTotal,
   labels : {Null} \cup {Some(SubSeq(LabelPool, 1, n)) : n \in 0..Min(MaxLabels, Len(LabelPool))}]

RECURSIVE GCD(_, _)
GCD(a, b) == IF b = 0 THEN a ELSE GCD(b, a % b)

RECURSIVE IsPowerOfTwo(_)
IsPowerOfTwo(n) == n = 1 \/ (n % 2 = 0 /\ IsPowerOfTwo(n \div 2))

\* currentStep / totalSteps is a double without rounding error
ExactQuotient(currentStep, totalSteps) == IsPowerOfTwo(totalSteps \div GCD(totalSteps, currentStep))

\* the quotient is rounded down, never to the nearest integer
progress_Floor(currentStep, totalSteps) == {(100 * currentStep) \div totalSteps}

\* Math.round((currentStep / totalSteps) * 100), as the set of values the
\* double arithmetic can give: Math.round takes the nearest integer and the
\* upper one when its argument lies halfway; when the exact percentage lies
\* halfway and the quotient is not an exact double, the rounded product may
\* lie at the half or on either side of it
progress(currentStep, totalSteps) ==
  LET below == (100 * currentStep) \div totalSteps
      twice == 2 * ((100 * currentStep) % totalSteps)
  IN  IF twice < totalSteps THEN {below}
      ELSE IF twice > totalSteps THEN {below + 1}
      ELSE IF ExactQuotient(currentStep, totalSteps) THEN {below + 1}
      ELSE {below, below + 1}

\* labels = [] when the prop is left out
DefaultLabels(labels) == IF labels = Null THEN << >> ELSE labels[1]

\* the marker at currentStep counts as completed too
MarkerClass_Inclusive(index, currentStep) ==
  IF index <= currentStep THEN "bg-purple-600 text-white border-purple-600"
  ELSE "border-gray-300 text-gray-400"

\* the class of the circle of the marker at index (zero-based)
MarkerClass(index, currentStep) ==
  IF index < currentStep THEN "bg-purple-600 text-white border-purple-600"
  ELSE IF index = currentStep THEN "border-purple-600 text-purple-600"
  ELSE "border-gray-300 text-gray-400"

\* what the component renders when progress has the given value
ProgressTracker(props, value) ==
  LET labels == DefaultLabels(props.labels)
  IN  [rule |-> "progress",
       progress |-> value,
       markers |-> IF Len(labels) # 0
                   THEN [i \in 1..Len(labels) |-> [class |-> MarkerClass(i - 1, props.currentStep), number |-> i, label |-> labels[i]]]
                   ELSE << >>,
       fallback |-> IF Len(labels) # 0
                    THEN Null
                    ELSE Some([start |-> "Start", percent |-> value, complete |-> "Complete"]),
       bar |-> value]

RenderProgressTracker ==
  /\ verdict' \in {ProgressTracker(probe, value) : value \in progress(probe.currentStep, probe.totalSteps)}
  /\ UNCHANGED <<showPreview, formData, toasts, probe>>

InitProgress ==
  /\ showPreview = FALSE
  /\ formData = InitialFormData
  /\ toasts = << >>
  /\ probe \in TrackerProps
  /\ verdict = Untested

NextProgress == RenderProgressTracker

SpecProgress == InitProgress /\ [][NextProgress]_vars

RequiredNames == {"pgName", "address", "ownerName", "primaryMobile", "email"}

MissingRequired(fd) == \E f \in RequiredNames : fd[f] = << >>

TenDigits(s) == Len(s) = 10 /\ \A i \in 1..Len(s) : s[i] \in {"0", "1", "2", "3", "4", "5", "6", "7", "8", "9"}

\* no whitespace, one '@' after a non-empty local part, and after it a '.'
\* with text between the '@' and the '.' and text after the '.'
WellFormedEmail(s) ==
  /\ \A i \in 1..Len(s) : s[i] \notin {" ", "\t", "\n", "\r", "\f"}
  /\ Cardinality({i \in 1..Len(s) : s[i] = "@"}) = 1
  /\ LET at == CHOOSE i \in 1..Len(s) : s[i] = "@"
     IN  /\ at > 1
         /\ \E d \in (at + 2)..(Len(s) - 1) : s[d] = "."

SomePositivePrice(fd) == \E k \in PriceKeys : fd.sharingPrices[k] # Null /\ fd.sharingPrices[k][1] > 0

ImageCount(fd) == IF fd.images = Null THEN 0 ELSE Len(fd.images[1])

RequiredWellFormed(fd) == ~MissingRequired(fd) /\ TenDigits(fd.primaryMobile) /\ WellFormedEmail(fd.email)

ValidRecord(fd) == RequiredWellFormed(fd) /\ SomePositivePrice(fd) /\ ImageCount(fd) >= 1

\* the rules of validation that fd breaks, numbered in the order of the list:
\* 1..5 the required fields, 6 mobile format, 7 email format, 8 price, 9 images
FailingRules(fd) ==
  {i \in 1..5 : fd[<<"pgName", "address", "ownerName", "primaryMobile", "email">>[i]] = << >>}
  \cup (IF TenDigits(fd.primaryMobile) THEN {} ELSE {6})
  \cup (IF WellFormedEmail(fd.email) THEN {} ELSE {7})
  \cup (IF SomePositivePrice(fd) THEN {} ELSE {8})
  \cup (IF ImageCount(fd) >= 1 THEN {} ELSE {9})

Earliest(rules) == CHOOSE i \in rules : \A j \in rules : i <= j

\* the text of the notification of each rule
RuleDescription ==
  <<<<"P", "g", " ", "N", "a", "m", "e", " is required">>,
    <<"A", "d", "d", "r", "e", "s", "s", " is required">>,
    <<"O", "w", "n", "e", "r", " ", "N", "a", "m", "e", " is required">>,
    <<"P", "r", "i", "m", "a", "r", "y", " ", "M", "o", "b", "i", "l", "e", " is required">>,
    <<"E", "m", "a", "i", "l", " is required">>,
    <<"Primary mobile number must be 10 digits">>,
    <<"Please enter a valid email address">>,
    <<"Enter at least one sharing option price">>,
    <<"Please upload at least one image">>>>

ReportsError(ts) == Len(ts) = 1 /\ ts[1].variant = "destructive"

(***************************************************************************)
(* The properties.                                                         *)
(***************************************************************************)
\* C1: the display mode starts at editing, and it goes from editing to
\* previewing only in a step of submit() taken on a record that satisfies
\* every rule of validation; no step of another operation sets it to previewing.
PreviewOnlyByValidSubmit ==
  /\ ~showPreview
  /\ [][(~showPreview /\ showPreview') => (HandleSubmit /\ ValidRecord(formData))]_vars

PreviewReached == showPreview /\ ValidRecord(formData) /\ toasts = << >>

\* C2: a submit() on a record in which one of pgName, address, ownerName,
\* primaryMobile, email is empty fails: it reports an error and the display
\* mode stays editing, whatever the other fields hold.
MissingRequiredBlocksSubmit ==
  [][(HandleSubmit /\ MissingRequired(formData)) => (~showPreview' /\ ReportsError(toasts'))]_vars

\* only pgName is missing, every other rule is satisfied, and submit() has failed
OnlyNameMissingRejected ==
  /\ ~showPreview
  /\ FailingRules(formData) = {1}
  /\ ReportsError(toasts)
  /\ toasts[1].title = "Validation Error"

\* C3: a failing submit() reports exactly one notification, the one of the
\* earliest rule the record breaks in the order pgName, address, ownerName,
\* primaryMobile, email, mobile format, email format, sharing price, images.
FirstFailingRuleReported ==
  [][(HandleSubmit /\ FailingRules(formData) # {}) =>
       (Len(toasts') = 1 /\ toasts'[1].description = RuleDescription[Earliest(FailingRules(formData))])]_vars

\* the mobile format, the email format and the price rule fail together and
\* the notification is the one of the mobile format
SeveralRulesFailOneReported ==
  /\ {6, 7, 8} \subseteq FailingRules(formData)
  /\ Earliest(FailingRules(formData)) = 6
  /\ Len(toasts) = 1
  /\ toasts[1].description = RuleDescription[6]

\* C4: setImages stores the selection as it is exactly when it holds 1 to 10
\* files; for no selection, 0 files or more than 10 files it reports an error
\* and leaves the record, the stored images included, as it was.
ImagesAllOrNothing ==
  [][\A files \in FileSelections :
       HandleImageChange(files) =>
         IF files # Null /\ Len(files[1]) \in 1..10
         THEN formData' = [formData EXCEPT !.images = files] /\ toasts' = << >>
         ELSE formData' = formData /\ ReportsError(toasts') /\ toasts'[1].title = "Image Upload Error"]_vars

\* a selection was rejected while 10 images were stored, and they still are
RejectedSelectionKeepsImages ==
  /\ ImageCount(formData) = 10
  /\ formData.images = Some(FileList(10))
  /\ ReportsError(toasts)
  /\ toasts[1].title = "Image Upload Error"

\* C5: the number of stored images is never more than 10: images is absent
\* or holds 1 to 10 entries.
ImagesWithinCap == formData.images = Null \/ Len(formData.images[1]) \in 1..10

TenImagesStored == ImageCount(formData) = 10 /\ toasts = << >>

\* C6: from previewing, back() keeps the record and leads to editing, and a
\* submit() taken right after it leads to previewing again with the same record.
RoundTripKeepsRecord ==
  [][EditListing => (formData' = formData /\ ~showPreview' /\ (ENABLED (HandleSubmit /\ showPreview' /\ formData' = formData))')]_vars

\* the state between back() and submit(): editing, with the record that was previewed
BackFromPreview == ~showPreview /\ ValidRecord(formData) /\ toasts = << >> /\ formData.sharingPrices["1"] # Null

\* C7: submit() never changes the record, and a submit() that reports a
\* failure leaves the display mode at editing.
SubmitKeepsRecord ==
  [][HandleSubmit => (formData' = formData /\ (toasts' # << >> => ~showPreview'))]_vars

\* submit() has failed on a record that holds a name and images
FailedSubmitOnFilledRecord ==
  /\ ~showPreview
  /\ Len(toasts) = 1
  /\ toasts[1].title = "Validation Error"
  /\ formData.pgName # << >>
  /\ ImageCount(formData) >= 1

\* C8: with the five required fields present and well-formed, submit() fails
\* when every sharing price is null or at most zero, and succeeds when one
\* sharing price is above zero and at least one image is stored.
PriceRuleDecides ==
  [][(HandleSubmit /\ RequiredWellFormed(formData)) =>
       /\ ~SomePositivePrice(formData) => (~showPreview' /\ ReportsError(toasts'))
       /\ (SomePositivePrice(formData) /\ ImageCount(formData) >= 1) => showPreview']_vars

\* previewing with sharingPrices["2"] = 5000 and every other price null
SinglePricePreviewed ==
  /\ showPreview
  /\ formData.sharingPrices["2"] = Some(5000)
  /\ \A k \in PriceKeys \ {"2"} : formData.sharingPrices[k] = Null

\* C9: the mobile rule passes exactly the strings of 10 decimal digits:
\* "12345" fails and "9876543210" passes.
MobileRuleIsTenDigits ==
  verdict.rule = "mobile" =>
    /\ verdict.ok <=> TenDigits(probe)
    /\ probe = <<"1", "2", "3", "4", "5">> => ~verdict.ok
    /\ probe = <<"9", "8", "7", "6", "5", "4", "3", "2", "1", "0">> => verdict.ok

MobileAccepted == verdict.rule = "mobile" /\ verdict.ok /\ probe = <<"9", "8", "7", "6", "5", "4", "3", "2", "1", "0">>

\* C10: the email rule passes exactly the strings without whitespace that
\* hold one '@' after a non-empty local part and, after the '@', a '.' with
\* text between the '@' and it and text after it: "a@b" fails, "a@b.com" passes.
EmailRuleIsLocalAtDomainTld ==
  verdict.rule = "email" =>
    /\ verdict.ok <=> WellFormedEmail(probe)
    /\ probe = <<"a", "@", "b">> => ~verdict.ok
    /\ probe = <<"a", "@", "b", ".", "c", "o", "m">> => verdict.ok

EmailAccepted == verdict.rule = "email" /\ verdict.ok /\ probe = <<"a", "@", "b", ".", "c", "o", "m">>

\* C11: toggling an amenity checkbox, whichever of the ten it is, negates that
\* flag and leaves the other nine flags, every other field of the record and
\* the display mode as they were; toggling the same checkbox again gives back
\* the record from before the first toggle.
ToggleNegatesOneFlag ==
  [][\A name \in AmenityNames : \A orig \in {formData} :
       HandleCheckboxChange(name) =>
         /\ formData'.amenities[name] = ~orig.amenities[name]
         /\ DOMAIN formData'.amenities = DOMAIN orig.amenities
         /\ \A other \in AmenityNames \ {name} : formData'.amenities[other] = orig.amenities[other]
         /\ DOMAIN formData' = DOMAIN orig
         /\ \A f \in DOMAIN orig \ {"amenities"} : formData'[f] = orig[f]
         /\ showPreview' = showPreview
         /\ (ENABLED (HandleCheckboxChange(name) /\ formData' = orig))'
    ]_vars

\* the last of the ten checkboxes has been ticked, and nothing else
HousekeepingToggledOn ==
  /\ formData.amenities = [a \in AmenityNames |-> a = "housekeeping"]
  /\ formData = [InitialFormData EXCEPT !.amenities = formData.amenities]

\* what a sharing price input is expected to store for the text typed into it
ExpectedPrice(raw) ==
  CASE raw = << >> -> Null
    [] raw = <<"0">> -> Some(0)
    [] raw = <<"5", "0", "0", "0">> -> Some(5000)
    [] raw = <<"-", "1">> -> Some(-1)

\* C12: changing the sharing price of a key stores null for the empty text
\* and otherwise the number the text denotes, a negative one included, and
\* changes nothing but the entry of that key.
SharingPriceStoresParsedNumber ==
  [][\A key \in PriceKeys : \A raw \in PriceInputs : \A orig \in {formData} :
       HandleSharingPriceChange(key, raw) =>
         /\ formData'.sharingPrices[key] = ExpectedPrice(raw)
         /\ DOMAIN formData'.sharingPrices = DOMAIN orig.sharingPrices
         /\ \A other \in PriceKeys \ {key} : formData'.sharingPrices[other] = orig.sharingPrices[other]
         /\ DOMAIN formData' = DOMAIN orig
         /\ \A f \in DOMAIN orig \ {"sharingPrices"} : formData'[f] = orig[f]
         /\ showPreview' = showPreview
    ]_vars

\* the price of the last key is negative
NegativePriceStored == formData.sharingPrices["5"] = Some(-1)

\* C13: each of the five sharing prices is null or a non-negative amount.
PricesNonNegative ==
  \A k \in PriceKeys : formData.sharingPrices[k] = Null \/ formData.sharingPrices[k][1] >= 0

\* C14: sharingPrices always has exactly the keys "1" to "5" and amenities
\* exactly its ten names: no handler adds a key to either or removes one.
KeysAreFixed ==
  /\ DOMAIN formData.sharingPrices = {"1", "2", "3", "4", "5"}
  /\ DOMAIN formData.amenities = {"wifi", "washingMachine", "biometric", "ac", "gym", "powerBackup", "geyser", "roWater", "parking", "housekeeping"}

\* a price has been written and the keys are the initial ones
PriceWrittenKeysKept ==
  /\ formData.sharingPrices["3"] = Some(5000)
  /\ DOMAIN formData.sharingPrices = DOMAIN InitialFormData.sharingPrices
  /\ DOMAIN formData.amenities = DOMAIN InitialFormData.amenities

\* C15: back() is available in every previewing state, whatever the record
\* holds, and every back() leads to editing with the record unchanged in
\* every field.
BackAlwaysEdits ==
  [][/\ showPreview' => (ENABLED EditListing)'
     /\ EditListing => (~showPreview' /\ \A f \in DOMAIN InitialFormData : formData'[f] = formData[f])
    ]_vars

\* editing again after the preview of a record with the second price set and ten images
BackWithTenImages ==
  /\ ~showPreview
  /\ toasts = << >>
  /\ ValidRecord(formData)
  /\ ImageCount(formData) = 10
  /\ formData.sharingPrices["2"] = Some(5000)

\* C16: post() is available only while previewing; it emits one notification,
\* of success and not of error severity, keeps the record and the display
\* mode, and can be taken again right after.
PostReportsSuccessOnly ==
  [][/\ ~showPreview' => ~(ENABLED HandlePost)'
     /\ HandlePost =>
          /\ showPreview /\ showPreview'
          /\ formData' = formData
          /\ Len(toasts') = 1
          /\ toasts'[1].title = "Success!"
          /\ toasts'[1].variant # "destructive"
          /\ (ENABLED HandlePost)'
    ]_vars

\* the listing has been posted from the preview
Posted == showPreview /\ Len(toasts) = 1 /\ toasts[1].title = "Success!"

\* C17: the progress computed for currentStep and totalSteps >= 1 is an
\* integer nearest to 100 * currentStep / totalSteps; for currentStep = 2 and
\* totalSteps = 4 it is 50; the progress bar is given that value.
ProgressIsNearestPercent ==
  verdict.rule = "progress" =>
    LET diff == 100 * probe.currentStep - probe.totalSteps * verdict.progress
    IN  /\ probe.totalSteps >= 1
        /\ 2 * (IF diff < 0 THEN 0 - diff ELSE diff) <= probe.totalSteps
        /\ (probe.currentStep = 2 /\ probe.totalSteps = 4) => verdict.progress = 50
        /\ verdict.bar = verdict.progress

\* step 2 of 4 has been rendered as 50
HalfWayRendered ==
  /\ verdict.rule = "progress"
  /\ probe.currentStep = 2 /\ probe.totalSteps = 4
  /\ verdict.progress = 50 /\ verdict.bar = 50

\* the descriptions of the notifications of the ten failures: a missing
\* required field (five), the mobile, email, price and images rules, and a
\* rejected file selection
FailureDescriptions ==
  {RequiredToast(f).description : f \in RequiredNames}
  \cup {MobileToast.description, EmailToast.description, PriceToast.description, ImagesToast.description, ImageUploadToast.description}

NoErrorNotification(ts) == \A i \in 1..Len(ts) : ts[i].variant # "destructive"

\* C18: a submit() that fails and a setImages() that is rejected each emit
\* exactly one notification, of error severity; a submit() that succeeds and
\* a setImages() that is accepted emit no error notification; and the ten
\* failures have ten different messages.
FailuresReportOneError ==
  [][/\ HandleSubmit =>
          IF ValidRecord(formData)
          THEN showPreview' /\ NoErrorNotification(toasts')
          ELSE ~showPreview' /\ ReportsError(toasts') /\ toasts'[1].description \in FailureDescriptions
     /\ \A files \in FileSelections :
          HandleImageChange(files) =>
            IF files # Null /\ Len(files[1]) \in 1..10
            THEN formData'.images = files /\ NoErrorNotification(toasts')
            ELSE ReportsError(toasts') /\ toasts'[1].description = ImageUploadToast.description
     /\ Cardinality(FailureDescriptions) = 10
    ]_vars

\* submit() has failed on the price rule alone and has said so
PriceFailureReported ==
  /\ ~showPreview
  /\ FailingRules(formData) = {8}
  /\ ReportsError(toasts)
  /\ toasts[1].description = <<"Enter at least one sharing option price">>

\* a step of one of the five handlers that write to the record
RecordMutation ==
  \/ \E name \in TextFields : \E value \in TextInputs(name) : HandleInputChange(name, value)
  \/ \E name \in RadioFields : \E value \in RadioItems[name] : HandleRadioChange(name, value)
  \/ \E name \in AmenityNames : HandleCheckboxChange(name)
  \/ \E key \in PriceKeys : \E value \in PriceInputs : HandleSharingPriceChange(key, value)
  \/ \E files \in FileSelections : HandleImageChange(files)

\* C20: whenever the display mode is previewing, the record satisfies the
\* five rules of validation, and none of the handlers that write to the
\* record can be taken.
PreviewedRecordIsValid ==
  showPreview =>
    /\ ~MissingRequired(formData)
    /\ TenDigits(formData.primaryMobile)
    /\ WellFormedEmail(formData.email)
    /\ SomePositivePrice(formData)
    /\ ImageCount(formData) >= 1
    /\ ~ENABLED RecordMutation

\* the preview of a record with ten images
PreviewOfTenImages == showPreview /\ ValidRecord(formData) /\ ImageCount(formData) = 10

\* how a marker is styled, by the class of its circle
MarkerStyle(marker) ==
  CASE marker.class = "bg-purple-600 text-white border-purple-600" -> "completed"
    [] marker.class = "border-purple-600 text-purple-600" -> "current"
    [] marker.class = "border-gray-300 text-gray-400" -> "pending"
    [] OTHER -> "unknown"

\* C19: with a non-empty list of labels the tracker renders one marker per
\* label, in order, styled completed below currentStep, current at
\* currentStep and pending above it, counting from zero; labels A, B, C, D
\* with currentStep = 2 give completed, completed, current, pending; and the
\* percentage is rendered exactly when there are no labels.
MarkersFollowCurrentStep ==
  verdict.rule = "progress" =>
    LET labels == IF probe.labels = Null THEN << >> ELSE probe.labels[1]
        styles == [i \in 1..Len(verdict.markers) |-> MarkerStyle(verdict.markers[i])]
    IN  /\ labels # << >> =>
              /\ Len(verdict.markers) = Len(labels)
              /\ \A i \in 1..Len(labels) :
                   /\ verdict.markers[i].label = labels[i]
                   /\ i - 1 < probe.currentStep => styles[i] = "completed"
                   /\ i - 1 = probe.currentStep => styles[i] = "current"
                   /\ i - 1 > probe.currentStep => styles[i] = "pending"
        /\ (labels = <<"A", "B", "C", "D">> /\ probe.currentStep = 2) =>
              styles = <<"completed", "completed", "current", "pending">>
        /\ (verdict.fallback # Null) <=> (labels = << >>)
        /\ verdict.fallback # Null => verdict.fallback[1].percent = verdict.progress

\* labels A, B, C, D at step 2 have been rendered as four markers
FourMarkersAtStepTwo ==
  /\ verdict.rule = "progress"
  /\ probe.labels = Some(<<"A", "B", "C", "D">>)
  /\ probe.currentStep = 2
  /\ Len(verdict.markers) = 4
  /\ verdict.markers[3].class = "border-purple-600 text-purple-600"
  /\ verdict.fallback = Null

\* after has the fields of before, with the same values except at field
OnlyFieldChanged(before, after, field) ==
  /\ DOMAIN after = DOMAIN before
  /\ \A f \in DOMAIN before \ {field} : after[f] = before[f]

\* C21: the five handlers that write to the record never change the display
\* mode, and each changes only what it names: updateField and setEnum the
\* named field, toggleAmenity and setSharingPrice the named entry of
\* amenities or sharingPrices, setImages the images.  (A step of updateField
\* or setEnum on a name is a step that writes the value the field has after it.)
WritesTouchOnlyTheNamedField ==
  [][\A orig \in {formData} :
       /\ \A name \in TextFields :
            HandleInputChange(name, formData'[name]) =>
              /\ showPreview' = showPreview
              /\ OnlyFieldChanged(orig, formData', name)
       /\ \A name \in RadioFields :
            HandleRadioChange(name, formData'[name]) =>
              /\ showPreview' = showPreview
              /\ OnlyFieldChanged(orig, formData', name)
       /\ \A name \in AmenityNames :
            HandleCheckboxChange(name) =>
              /\ showPreview' = showPreview
              /\ OnlyFieldChanged(orig, formData', "amenities")
              /\ OnlyFieldChanged(orig.amenities, formData'.amenities, name)
       /\ \A key \in PriceKeys : \A value \in PriceInputs :
            HandleSharingPriceChange(key, value) =>
              /\ showPreview' = showPreview
              /\ OnlyFieldChanged(orig, formData', "sharingPrices")
              /\ OnlyFieldChanged(orig.sharingPrices, formData'.sharingPrices, key)
       /\ \A files \in FileSelections :
            HandleImageChange(files) =>
              /\ showPreview' = showPreview
              /\ OnlyFieldChanged(orig, formData', "images")
    ]_vars

\* the last text input has been filled in next to ten attached images
VideoLinkTypedBesideImages ==
  /\ formData.videoLink = <<"x">>
  /\ ImageCount(formData) = 10
  /\ formData = [InitialFormData EXCEPT !.videoLink = <<"x">>, !.images = formData.images]

====
